---- MODULE Spec2Model ----
(***************************************************************************)
(* A model of five source files of the repository:                         *)
(*   examples/with_openai/with_configs.py        (search_index,            *)
(*                                                question_sensor)         *)
(*   dagster/_config/structured_config.py        (schema inference)        *)
(*   dagster_graphql/implementation/fetch_partition_sets.py                *)
(*   dagster/_core/reactive_scheduling/scheduling_policy.py                *)
(*   dagster/_core/definitions/metadata/table.py                           *)
(* Each component has its own variables and its own specification; a       *)
(* specification leaves the variables of the other components unchanged.   *)
(***************************************************************************)
EXTENDS Integers, Sequences, FiniteSets, TLC

VARIABLES
    \* ---- search_index (with_configs.py 47-71)
    pc,                 \* position of each invocation of search_index
    partition_key,      \* context.partition_key of each invocation
    search_index_local, \* the local variable search_index of each invocation
    file,               \* the contents of SEARCH_INDEX_FILE
    holder,             \* the invocation holding the flock on SEARCH_INDEX_FILE
    lockOpenTruncates,  \* whether the lock's open of its lock file truncates it
    \* ---- question_sensor (with_configs.py 141-167)
    dir,                \* the question directory: entry name -> entry
    cursor,             \* the cursor the host keeps between evaluations
    sensor_out,         \* the outcome of the latest evaluation
    emitted,            \* run requests emitted by the evaluations before the latest
    \* ---- structured_config.py
    fields_of,          \* the declared fields of each Config class
    cfg_out,            \* the latest call of the schema bridge and its outcome
    \* ---- fetch_partition_sets.py
    repository,         \* graphene_info.context.legacy_external_repository
    ps_out,             \* the latest resolver call and its outcome
    \* ---- scheduling_policy.py
    tick_settings,      \* the policy object's tick_settings
    pol_out,            \* the latest policy call and its outcome
    \* ---- table.py
    table_out           \* the latest call of from_name_type_dict and its outcome

indexVars  == <<pc, partition_key, search_index_local, file, holder, lockOpenTruncates>>
sensorVars == <<dir, cursor, sensor_out, emitted>>
configVars == <<fields_of, cfg_out>>
psVars     == <<repository, ps_out>>
policyVars == <<tick_settings, pol_out>>
tableVars  == <<table_out>>
vars == <<indexVars, sensorVars, configVars, psVars, policyVars, tableVars>>

\* What a step of one component leaves alone: the other components.
OnlyIndex  == UNCHANGED <<sensorVars, configVars, psVars, policyVars, tableVars>>
OnlySensor == UNCHANGED <<indexVars, configVars, psVars, policyVars, tableVars>>
OnlyConfig == UNCHANGED <<indexVars, sensorVars, psVars, policyVars, tableVars>>
OnlyPs     == UNCHANGED <<indexVars, sensorVars, configVars, policyVars, tableVars>>
OnlyPolicy == UNCHANGED <<indexVars, sensorVars, configVars, psVars, tableVars>>
OnlyTable  == UNCHANGED <<indexVars, sensorVars, configVars, psVars, policyVars>>

\* Python's None.
None == "None"

(***************************************************************************)
(* search_index: with_configs.py lines 47-71                               *)
(***************************************************************************)

\* The number of invocations of search_index (runs of the asset).
MaxRuns == 2

Invocations == 1..MaxRuns

\* docs_partitions_def
docs_partitions_def == {"guides", "integrations"}

\* The file states: no such file, a file of size 0, or a pickled index.  An
\* index is the set of the invocations whose chunks it holds (FAISS gives the
\* documents of every from_documents call fresh ids, so the chunks of two runs
\* never coincide, also when they embed the same partition).
Absent == [kind |-> "absent", index |-> {}]
EmptyFile == [kind |-> "empty", index |-> {}]
Pickled(index) == [kind |-> "pickle", index |-> index]

\* No invocation holds the lock.
NoHolder == 0

\* os.path.getsize: a pickle is never of size 0.
getsize(f) == IF f.kind = "pickle" THEN 1 ELSE 0

\* Lines 49-59: split the documents, embed the chunks, build the new index.
BuildIndex(i) ==
    /\ pc[i] = "build"
    /\ search_index_local' = [search_index_local EXCEPT ![i] = {i}]
    /\ pc' = [pc EXCEPT ![i] = "lock_open"]
    /\ UNCHANGED <<partition_key, file, holder, lockOpenTruncates>>
    /\ OnlyIndex

\* Line 61, FileLock(SEARCH_INDEX_FILE).acquire, first half: the lock file is
\* the index file itself (line 34, line 61); it is opened, created when
\* absent, and truncated when the lock's open truncates.
LockOpenResult(f) ==
    IF lockOpenTruncates \/ f.kind = "absent" THEN EmptyFile ELSE f

LockOpen(i) ==
    /\ pc[i] = "lock_open"
    /\ file' = LockOpenResult(file)
    /\ pc' = [pc EXCEPT ![i] = "flock"]
    /\ UNCHANGED <<partition_key, search_index_local, holder, lockOpenTruncates>>
    /\ OnlyIndex

\* Line 61, second half: flock(LOCK_EX | LOCK_NB) succeeds when nobody holds
\* the lock; otherwise the descriptor is closed and the acquire polls again.
CanLock(i) == holder = NoHolder

Flock(i) ==
    /\ pc[i] = "flock"
    /\ IF CanLock(i)
       THEN /\ holder' = i
            /\ pc' = [pc EXCEPT ![i] = "getsize"]
       ELSE /\ holder' = holder
            /\ pc' = [pc EXCEPT ![i] = "lock_open"]
    /\ UNCHANGED <<partition_key, search_index_local, file, lockOpenTruncates>>
    /\ OnlyIndex

\* Line 62: os.path.getsize raises when there is no file; the exception
\* leaves the with block, which releases the lock.
GetSize(i) ==
    /\ pc[i] = "getsize"
    /\ IF file.kind = "absent"
       THEN /\ pc' = [pc EXCEPT ![i] = "failed"]
            /\ holder' = NoHolder
       ELSE /\ pc' = [pc EXCEPT ![i] = IF getsize(file) > 0 THEN "load" ELSE "write"]
            /\ holder' = holder
    /\ UNCHANGED <<partition_key, search_index_local, file, lockOpenTruncates>>
    /\ OnlyIndex

\* Lines 63-68: load the prior index and merge it into the new one.
\* pickle.load of a file that is empty (or gone) by now raises.
merge_from(new, cached) == new \cup cached

LoadAndMerge(i) ==
    /\ pc[i] = "load"
    /\ IF file.kind = "pickle"
       THEN /\ search_index_local' =
                   [search_index_local EXCEPT ![i] = merge_from(@, file.index)]
            /\ pc' = [pc EXCEPT ![i] = "write"]
            /\ holder' = holder
       ELSE /\ search_index_local' = search_index_local
            /\ pc' = [pc EXCEPT ![i] = "failed"]
            /\ holder' = NoHolder
    /\ UNCHANGED <<partition_key, file, lockOpenTruncates>>
    /\ OnlyIndex

\* Lines 70-71: open(..., "wb") and pickle.dump.
WriteIndex(i) ==
    /\ pc[i] = "write"
    /\ file' = Pickled(search_index_local[i])
    /\ pc' = [pc EXCEPT ![i] = "release"]
    /\ UNCHANGED <<partition_key, search_index_local, holder, lockOpenTruncates>>
    /\ OnlyIndex

\* The end of the with block of line 61: the lock is released.
Release(i) ==
    /\ pc[i] = "release"
    /\ holder' = NoHolder
    /\ pc' = [pc EXCEPT ![i] = "done"]
    /\ UNCHANGED <<partition_key, search_index_local, file, lockOpenTruncates>>
    /\ OnlyIndex


(***************************************************************************)
(* search_index: the claims                                                *)
(***************************************************************************)

\* Invocation i is between acquiring and releasing the lock.
InsideLock(i) == pc[i] \in {"getsize", "load", "write", "release"}

AllFinished == \A i \in Invocations : pc[i] \in {"done", "failed"}

\* C1 as stated: at most one invocation is between acquiring and releasing
\* the lock, and while an invocation is there the contents of the index file
\* change only by its own steps.
C1_Original ==
    [][/\ \A i, j \in Invocations : InsideLock(i)' /\ InsideLock(j)' => i = j
       /\ \A i \in Invocations :
             InsideLock(i) /\ file' # file => pc'[i] # pc[i]]_vars

\* C2 as stated: once every run has completed, the persisted index holds the
\* chunks of every completed run.
C2_Original ==
    AllFinished =>
        \A i \in Invocations : pc[i] = "done" => file.kind = "pickle" /\ i \in file.index

(***************************************************************************)
(* question_sensor: with_configs.py lines 141-167                          *)
(***************************************************************************)

\* The largest modification time a file takes.
MaxMtime == 2

Mtimes == 1..MaxMtime

\* The entries the question directory may hold: two question files, a file
\* that is no *.json, and a directory whose name ends in .json.
EntryNames == {"q1.json", "q2.json", "notes.txt", "archive.json"}
QuestionNames == {"q1.json", "q2.json"}

\* filename.endswith(".json"), line 151
endswith_json(filename) == filename \in {"q1.json", "q2.json", "archive.json"}

\* os.path.isfile(file_path), line 151
isfile(filename) == filename # "archive.json"

\* What a question file holds: a JSON object, or text that is no JSON.
Bodies == {"object", "malformed"}

NoEntry == [present |-> FALSE, mtime |-> 0, body |-> "none"]
Entry(t, b) == [present |-> TRUE, mtime |-> t, body |-> b]

\* Lines 157-158: json.load raises on text that is no JSON.
LoadRaises(body) == body = "malformed"

\* The directory with no question file: notes.txt and the directory
\* archive.json are there throughout.
EmptyDir ==
    [f \in EntryNames |-> IF f \in QuestionNames THEN NoEntry ELSE Entry(1, "other")]

\* A Python dict is an insertion-ordered list of key/value pairs here; a
\* later pair of the same key replaces the earlier one.
RECURSIVE DictGet(_, _, _)
DictGet(d, key, default) ==
    IF d = <<>> THEN default
    ELSE IF d[Len(d)][1] = key THEN d[Len(d)][2]
    ELSE DictGet(SubSeq(d, 1, Len(d) - 1), key, default)

DictKeys(d) == {d[k][1] : k \in DOMAIN d}

\* json.dumps of a dict: the JSON text, kept as the pairs it lists in order.
\* json.loads gives the dict back (a float's repr reads back as the same
\* float).
json_dumps(d) == [kind |-> "str", json |-> d]
json_loads(text) == text.json

\* context.cursor before any evaluation has returned: None.
NoCursor == [kind |-> "None", json |-> <<>>]

\* Line 145: a cursor of None (or "") is falsy, a JSON text never is.
previous_state_of(c) == IF c.kind = "str" THEN json_loads(c) ELSE <<>>

\* Line 162: the run key.  ToString stands for the float's str().
RunKeyNoMtime(filename, last_modified) == "adhoc_request_" \o filename

RunKey(filename, last_modified) ==
    "adhoc_request_" \o filename \o "_" \o ToString(last_modified)

\* A RunRequest; filename and last_modified are the values its run key and
\* its run_config were built from.
RunRequest(filename, last_modified) ==
    [run_key |-> RunKey(filename, last_modified),
     filename |-> filename,
     last_modified |-> last_modified]

\* Line 156, without the comparison of the modification times.
IsChangedNewOnly(previous_state, filename, last_modified) ==
    filename \notin DictKeys(previous_state)

\* Line 156
IsChanged(previous_state, filename, last_modified) ==
    \/ filename \notin DictKeys(previous_state)
    \/ DictGet(previous_state, filename, 0) # last_modified

\* Lines 146-165, with a file of malformed JSON skipped (as if json.load were
\* inside a try that goes on to the next file).
RECURSIVE ScanDirSkippingMalformed(_, _, _)
ScanDirSkippingMalformed(order, d, previous_state) ==
    IF order = <<>>
    THEN [current_state |-> <<>>, runs_to_request |-> <<>>, raised |-> FALSE]
    ELSE LET before == ScanDirSkippingMalformed(SubSeq(order, 1, Len(order) - 1),
                                                 d, previous_state)
             filename == order[Len(order)]
             last_modified == d[filename].mtime
         IN  IF ~(endswith_json(filename) /\ isfile(filename)) THEN before
             ELSE IF ~IsChanged(previous_state, filename, last_modified)
                     \/ LoadRaises(d[filename].body)
             THEN [before EXCEPT
                     !.current_state = Append(@, <<filename, last_modified>>)]
             ELSE [before EXCEPT
                     !.current_state = Append(@, <<filename, last_modified>>),
                     !.runs_to_request = Append(@, RunRequest(filename, last_modified))]

\* Lines 146-165: the loop over os.listdir, in the order `order`.
RECURSIVE ScanDir(_, _, _)
ScanDir(order, d, previous_state) ==
    IF order = <<>>
    THEN [current_state |-> <<>>, runs_to_request |-> <<>>, raised |-> FALSE]
    ELSE LET before == ScanDir(SubSeq(order, 1, Len(order) - 1), d, previous_state)
             filename == order[Len(order)]
             last_modified == d[filename].mtime
         IN  IF before.raised THEN before
             ELSE IF ~(endswith_json(filename) /\ isfile(filename)) THEN before
             ELSE IF ~IsChanged(previous_state, filename, last_modified)
             THEN [before EXCEPT
                     !.current_state = Append(@, <<filename, last_modified>>)]
             ELSE IF LoadRaises(d[filename].body)
             THEN [before EXCEPT !.raised = TRUE]
             ELSE [before EXCEPT
                     !.current_state = Append(@, <<filename, last_modified>>),
                     !.runs_to_request = Append(@, RunRequest(filename, last_modified))]

\* os.listdir: the present entries, in an order the file system chooses; here
\* one enumeration of the directory or its reverse, so that either of two
\* entries may come first.
Enumeration == <<"notes.txt", "q1.json", "archive.json", "q2.json">>

RECURSIVE Keep(_, _)
Keep(seq, S) ==
    IF seq = <<>> THEN <<>>
    ELSE IF seq[1] \in S THEN <<seq[1]>> \o Keep(Tail(seq), S)
    ELSE Keep(Tail(seq), S)

Reverse(seq) == [k \in DOMAIN seq |-> seq[Len(seq) + 1 - k]]

Present(d) == {f \in EntryNames : d[f].present}

ListdirOrders(d) ==
    {Keep(Enumeration, Present(d)), Reverse(Keep(Enumeration, Present(d)))}

NoResult == [kind |-> "none", run_requests |-> <<>>, cursor |-> NoCursor]

RequestsOf(out) == {out.run_requests[k] : k \in DOMAIN out.run_requests}

\* The host's cursor after an evaluation: the cursor of the result when the
\* evaluation returned one, the cursor it had otherwise.
host_cursor(previous, out) == IF out.kind = "result" THEN out.cursor ELSE previous

\* One evaluation.  An exception of line 158 leaves the function before line
\* 167: there is no SensorResult, so neither run requests nor a cursor.
question_sensor(order) ==
    /\ order \in ListdirOrders(dir)
    /\ LET scan == ScanDir(order, dir, previous_state_of(cursor))
           out == IF scan.raised
                  THEN [kind |-> "raised", run_requests |-> <<>>, cursor |-> NoCursor]
                  ELSE [kind |-> "result",
                        run_requests |-> scan.runs_to_request,
                        cursor |-> json_dumps(scan.current_state)]
       IN  /\ sensor_out' = out
           /\ cursor' = host_cursor(cursor, out)
    /\ emitted' = emitted \cup RequestsOf(sensor_out)
    /\ UNCHANGED dir
    /\ OnlySensor

\* The environment: a question file is created, rewritten or touched (written
\* with the body it has) at any modification time (os.utime sets any), ...
WriteQuestion(f, t, b) ==
    /\ f \in QuestionNames
    /\ dir' = [dir EXCEPT ![f] = Entry(t, b)]
    /\ UNCHANGED <<cursor, sensor_out, emitted>>
    /\ OnlySensor

\* ... or it is deleted.
DeleteQuestion(f) ==
    /\ f \in QuestionNames
    /\ dir[f].present
    /\ dir' = [dir EXCEPT ![f] = NoEntry]
    /\ UNCHANGED <<cursor, sensor_out, emitted>>
    /\ OnlySensor

\* A step is an evaluation (which leaves the directory as it is; that is
\* tested first).
Evaluated == UNCHANGED dir /\ \E order \in ListdirOrders(dir) : question_sensor(order)


(***************************************************************************)
(* question_sensor: the claims                                             *)
(***************************************************************************)

\* A dict as a function.
AsMap(d) == [key \in DictKeys(d) |-> DictGet(d, key, 0)]

\* The *.json regular files of the directory, and their modification times.
JsonFiles(d) == {f \in EntryNames : d[f].present /\ endswith_json(f) /\ isfile(f)}
MtimesOf(d) == [f \in JsonFiles(d) |-> d[f].mtime]

\* f is a *.json regular file that the prior cursor P does not list with its
\* current modification time.
NewOrChanged(d, P, f) ==
    f \in JsonFiles(d) /\ (f \notin DOMAIN P \/ P[f] # d[f].mtime)

RequestCount(out, f) ==
    Cardinality({k \in DOMAIN out.run_requests : out.run_requests[k].filename = f})

\* What C3 says of one evaluation of directory d with prior cursor c and
\* outcome out.
C3_Post(d, c, out) ==
    LET P == AsMap(previous_state_of(c))
    IN  /\ \A f \in EntryNames :
              RequestCount(out, f) = IF NewOrChanged(d, P, f) THEN 1 ELSE 0
        /\ out.cursor.kind = "str"
        /\ AsMap(json_loads(out.cursor)) = MtimesOf(d)

NoMalformedChange(d, c) ==
    \A f \in EntryNames :
        NewOrChanged(d, AsMap(previous_state_of(c)), f) => ~LoadRaises(d[f].body)

C4_Original ==
    \A r \in RequestsOf(sensor_out) : \A e \in emitted : e.run_key # r.run_key

\* C4, amended: in every evaluation that returns, each new or changed *.json
\* file produces exactly one run request; its run key differs from the key
\* for the modification time the cursor held for that file, and it equals the
\* key of a request of an earlier evaluation exactly when that request was for
\* the same filename at the same modification time.
C4_Amended ==
    [][Evaluated /\ sensor_out'.kind = "result" =>
          LET P == AsMap(previous_state_of(cursor))
          IN  /\ \A f \in EntryNames :
                    NewOrChanged(dir, P, f) => RequestCount(sensor_out', f) = 1
              /\ \A r \in RequestsOf(sensor_out') :
                    /\ r.filename \in DOMAIN P =>
                           r.run_key # RunKey(r.filename, P[r.filename])
                    /\ \A e \in emitted' :
                           e.run_key = r.run_key <=>
                               /\ e.filename = r.filename
                               /\ e.last_modified = r.last_modified]_vars

\* C4's case: a file was requested, changed, requested again, and changed
\* back: the latest evaluation's request has the key of an earlier one.
C4_Witness ==
    \E r \in RequestsOf(sensor_out) : \E e \in emitted : e.run_key = r.run_key

\* C12: an evaluation in which a new or changed file holds malformed JSON
\* raises: it returns no run request, also none for a well-formed new or
\* changed file, and no cursor, and the host's cursor stays as it was; the
\* evaluation after an aborted one judges new and changed against that cursor.
C12_AbortKeepsCursor ==
    [][Evaluated =>
          /\ ~NoMalformedChange(dir, cursor) =>
                 /\ sensor_out'.kind = "raised"
                 /\ sensor_out'.run_requests = <<>>
                 /\ sensor_out'.cursor = NoCursor
                 /\ cursor' = cursor
          /\ sensor_out.kind = "raised" /\ sensor_out'.kind = "result" =>
                 \A f \in EntryNames :
                     RequestCount(sensor_out', f) =
                         IF NewOrChanged(dir, AsMap(previous_state_of(cursor)), f)
                         THEN 1 ELSE 0]_vars

\* C12's case: an evaluation with a cursor of an earlier evaluation has
\* aborted on a malformed changed file while another, well-formed file is
\* changed too; no request is returned and the cursor is still the earlier
\* one, which lists neither file with its present modification time.
C12_Witness ==
    /\ sensor_out.kind = "raised"
    /\ sensor_out.run_requests = <<>>
    /\ cursor.kind = "str"
    /\ \E f, g \in QuestionNames :
          LET P == AsMap(previous_state_of(cursor))
          IN  /\ f \in DOMAIN P /\ g \in DOMAIN P
              /\ NewOrChanged(dir, P, f) /\ LoadRaises(dir[f].body)
              /\ NewOrChanged(dir, P, g) /\ ~LoadRaises(dir[g].body)

(***************************************************************************)
(* structured_config.py                                                    *)
(***************************************************************************)

\* The largest number of fields the class Outer declares.
MaxFields == 2

\* pydantic.fields shapes (line 5): a single value, List[...], Mapping[...].
SHAPE_SINGLETON == "SHAPE_SINGLETON"
SHAPE_LIST == "SHAPE_LIST"
SHAPE_MAPPING == "SHAPE_MAPPING"
Shapes == {SHAPE_SINGLETON, SHAPE_LIST, SHAPE_MAPPING}

\* dagster._config.field_utils.FIELD_NO_DEFAULT_PROVIDED (line 10)
FIELD_NO_DEFAULT_PROVIDED == "FIELD_NO_DEFAULT_PROVIDED"

\* inspect.Parameter.empty (lines 92, 101)
ParameterEmpty == "inspect.Parameter.empty"

\* Python values, by their repr.  bool(v) is False for these:
Falsy == {"None", "0", "False", "''"}
Truthy(v) == v \notin Falsy

\* The Config classes, and the annotations a caller may pass.
ConfigClasses == {"Outer", "Inner"}
PlainTypes == {"int", "str", "object"}

\* _safe_is_subclass(cls, Config), lines 106-110: "a_dict" is a value that is
\* no type (isinstance(cls, type) is False).
IsType(cls) == cls \in ConfigClasses \cup PlainTypes
safe_is_subclass_Config(cls) == IsType(cls) /\ cls \in ConfigClasses

\* model_cls.__doc__
DocOf(cls) == IF cls = "Outer" THEN " Outer config. " ELSE None
strip(doc) == IF doc = " Outer config. " THEN "Outer config." ELSE doc

\* A declared field (a pydantic ModelField): its default is None when the
\* class declares none (required).
FieldDecl(name, type_, shape, required, default) ==
    [name |-> name, type_ |-> type_, shape |-> shape, required |-> required,
     default |-> IF required THEN None ELSE default, description |-> None]

DeclaredDefaults == {"0", "7"}

\* The ways to declare a field: required, or (a plain field) with a default.
FieldChoices(types) ==
    {[type_ |-> t, shape |-> sh, required |-> r, default |-> d] :
        t \in types, sh \in Shapes, r \in {TRUE}, d \in {None}}
    \cup
    {[type_ |-> t, shape |-> sh, required |-> r, default |-> d] :
        t \in types \cap PlainTypes, sh \in Shapes, r \in {FALSE},
        d \in DeclaredDefaults}

FieldName(k) == "f" \o ToString(k)

DeclsOf(choice) ==
    [k \in DOMAIN choice |->
        FieldDecl(FieldName(k), choice[k].type_, choice[k].shape,
                  choice[k].required, choice[k].default)]

OuterDecls ==
    {DeclsOf(c) : c \in UNION {[1..n -> FieldChoices({"int", "Inner"})]
                                  : n \in 0..MaxFields}}

InnerDecls ==
    {<<FieldDecl("x", "int", sh, TRUE, None)>> : sh \in {SHAPE_SINGLETON, SHAPE_LIST}}

\* A config type and a Field of the host's schema tree.
ConfigType(kind, fields) == [kind |-> kind, fields |-> fields]
Field(config, description, default_value) ==
    [config |-> config, description |-> description, default_value |-> default_value]
NoField == Field(ConfigType("none", <<>>), None, None)

Returned(field) == [ok |-> TRUE, error |-> None, field |-> field]
Raised(error) == [ok |-> FALSE, error |-> error, field |-> NoField]

\* convert_potential_field(t).config_type (dagster._config.field_utils): the
\* scalar types convert, a dict converts to a Shape, anything else is invalid.
convert_potential_field(t) ==
    IF t = "int" THEN Returned(Field(ConfigType("Int", <<>>), None, FIELD_NO_DEFAULT_PROVIDED))
    ELSE IF t = "str" THEN Returned(Field(ConfigType("String", <<>>), None, FIELD_NO_DEFAULT_PROVIDED))
    ELSE IF t = "a_dict" THEN Returned(Field(ConfigType("Shape", <<>>), None, FIELD_NO_DEFAULT_PROVIDED))
    ELSE Raised("DagsterInvalidDefinitionError")

\* `a or b`
Or(a, b) == IF a \in {None, ""} THEN b ELSE a

RECURSIVE infer_schema_from_config_class(_, _, _)
RECURSIVE convert_fields(_, _, _)

\* Lines 61-82
convert_pydantic_field(decls, pydantic_field) ==
    IF safe_is_subclass_Config(pydantic_field.type_)
    THEN infer_schema_from_config_class(decls, pydantic_field.type_,
                                        pydantic_field.description)
    ELSE IF pydantic_field.shape # SHAPE_SINGLETON
    THEN Raised("NotImplementedError")
    ELSE LET inner == convert_potential_field(pydantic_field.type_)
         IN  IF ~inner.ok THEN inner
             ELSE Returned(Field(inner.field.config, pydantic_field.description,
                                 IF Truthy(pydantic_field.default)
                                 THEN pydantic_field.default
                                 ELSE FIELD_NO_DEFAULT_PROVIDED))

\* Lines 125-127: the loop over model_cls.__fields__; the first exception
\* ends it.  The result's field holds the converted fields as a Shape.
convert_fields(decls, model_cls, n) ==
    IF n = 0 THEN Returned(Field(ConfigType("Shape", <<>>), None, None))
    ELSE LET before == convert_fields(decls, model_cls, n - 1)
             pydantic_field == decls[model_cls][n]
         IN  IF ~before.ok THEN before
             ELSE LET converted == convert_pydantic_field(decls, pydantic_field)
                  IN  IF ~converted.ok THEN converted
                      ELSE Returned(Field(
                               ConfigType("Shape",
                                   Append(before.field.config.fields,
                                          [name |-> pydantic_field.name,
                                           field |-> converted.field])),
                               None, None))

\* Lines 113-130
infer_schema_from_config_class(decls, model_cls, description) ==
    IF model_cls \notin ConfigClasses
    THEN Raised("ParameterCheckError")
    ELSE LET fields == convert_fields(decls, model_cls, Len(decls[model_cls]))
             docstring == IF DocOf(model_cls) # None THEN strip(DocOf(model_cls)) ELSE None
         IN  IF ~fields.ok THEN fields
             ELSE Returned(Field(fields.field.config, Or(description, docstring),
                                 FIELD_NO_DEFAULT_PROVIDED))

\* Lines 85-103, with a truth test of the default in place of the identity
\* tests.
infer_schema_from_config_annotation_truthy(decls, model_cls, config_arg_default) ==
    IF safe_is_subclass_Config(model_cls)
    THEN IF Truthy(config_arg_default) /\ config_arg_default # ParameterEmpty
         THEN Raised("CheckError")
         ELSE infer_schema_from_config_class(decls, model_cls, None)
    ELSE LET inner == convert_potential_field(model_cls)
         IN  IF ~inner.ok THEN inner
             ELSE Returned(Field(inner.field.config, None,
                                 IF Truthy(config_arg_default)
                                    /\ config_arg_default # ParameterEmpty
                                 THEN config_arg_default
                                 ELSE FIELD_NO_DEFAULT_PROVIDED))

\* Lines 85-103
infer_schema_from_config_annotation(decls, model_cls, config_arg_default) ==
    IF safe_is_subclass_Config(model_cls)
    THEN IF config_arg_default # ParameterEmpty
         THEN Raised("CheckError")
         ELSE infer_schema_from_config_class(decls, model_cls, None)
    ELSE LET inner == convert_potential_field(model_cls)
         IN  IF ~inner.ok THEN inner
             ELSE Returned(Field(inner.field.config, None,
                                 IF config_arg_default = ParameterEmpty
                                 THEN FIELD_NO_DEFAULT_PROVIDED
                                 ELSE config_arg_default))

\* The annotations and defaults a caller passes.
Annotations == ConfigClasses \cup PlainTypes \cup {"a_dict"}
ArgDefaults == {ParameterEmpty, "None", "0", "7"}

NoCall == [op |-> "none", model_cls |-> None, config_arg_default |-> None,
           out |-> Raised(None)]

CallInferClass(model_cls) ==
    /\ cfg_out' = [op |-> "infer_schema_from_config_class",
                   model_cls |-> model_cls,
                   config_arg_default |-> ParameterEmpty,
                   out |-> infer_schema_from_config_class(fields_of, model_cls, None)]
    /\ UNCHANGED fields_of
    /\ OnlyConfig

CallInferAnnotation(model_cls, config_arg_default) ==
    /\ cfg_out' = [op |-> "infer_schema_from_config_annotation",
                   model_cls |-> model_cls,
                   config_arg_default |-> config_arg_default,
                   out |-> infer_schema_from_config_annotation(
                               fields_of, model_cls, config_arg_default)]
    /\ UNCHANGED fields_of
    /\ OnlyConfig

NextConfig ==
    \/ \E c \in ConfigClasses : CallInferClass(c)
    \/ \E a \in Annotations, d \in ArgDefaults : CallInferAnnotation(a, d)

(***************************************************************************)
(* structured_config.py: the claims                                        *)
(***************************************************************************)

\* C5 as stated: inference from a config class fails when a declared field of
\* the class has a shape that is not a single value, whatever the field's
\* element type.
C5_Original ==
    cfg_out.op = "infer_schema_from_config_class" =>
        ((\E k \in DOMAIN fields_of[cfg_out.model_cls] :
              fields_of[cfg_out.model_cls][k].shape # SHAPE_SINGLETON)
            => ~cfg_out.out.ok)

C11_Original ==
    (cfg_out.op = "infer_schema_from_config_class" /\ cfg_out.out.ok) =>
        \A k \in DOMAIN fields_of[cfg_out.model_cls] :
            LET decl == fields_of[cfg_out.model_cls][k]
                converted == cfg_out.out.field.config.fields[k].field
            IN  (decl.shape = SHAPE_SINGLETON /\ decl.type_ \notin ConfigClasses) =>
                    /\ ~decl.required => converted.default_value = decl.default
                    /\ converted.default_value = FIELD_NO_DEFAULT_PROVIDED
                           <=> decl.required

(***************************************************************************)
(* fetch_partition_sets.py                                                 *)
(***************************************************************************)

\* The largest number of partition sets of the repository.
MaxSets == 3

PipelineNames == {"job1", "job2"}
Modes == {"modeA", "modeB"}
SetNames == {"p1", "p2"}

ExternalPartitionSet(pipeline_name, mode, name) ==
    [pipeline_name |-> pipeline_name, mode |-> mode, name |-> name]

ExternalPartitionSets ==
    {ExternalPartitionSet(p, m, n) : p \in PipelineNames, m \in Modes, n \in SetNames}

NoPartitionSet == ExternalPartitionSet(None, None, None)

\* Python's order of the strings in use (str.__lt__).
StrRank(str) ==
    CASE str = "job1" -> 1 [] str = "job2" -> 2
      [] str = "modeA" -> 1 [] str = "modeB" -> 2
      [] str = "p1" -> 1 [] str = "p2" -> 2
      [] OTHER -> 0

\* Lines 26-30, with the mode left out of the key.
sort_key_no_mode(partition_set) ==
    <<StrRank(partition_set.pipeline_name), 0, StrRank(partition_set.name)>>

\* Lines 26-30: the sort key.
sort_key(partition_set) ==
    <<StrRank(partition_set.pipeline_name), StrRank(partition_set.mode),
      StrRank(partition_set.name)>>

\* Python's order of tuples: a < b.
TupleLess(a, b) ==
    \/ a[1] < b[1]
    \/ a[1] = b[1] /\ a[2] < b[2]
    \/ a[1] = b[1] /\ a[2] = b[2] /\ a[3] < b[3]

\* sorted(seq, key=sort_key): a stable sort.  Each element goes after the
\* elements before it whose key is not greater.
InsertSorted(seq, x) ==
    LET after == {j \in DOMAIN seq : TupleLess(sort_key(x), sort_key(seq[j]))}
        at == IF after = {} THEN Len(seq) + 1
              ELSE CHOOSE j \in after : \A k \in after : j <= k
    IN  SubSeq(seq, 1, at - 1) \o <<x>> \o SubSeq(seq, at, Len(seq))

RECURSIVE sorted(_)
sorted(seq) ==
    IF seq = <<>> THEN <<>>
    ELSE InsertSorted(sorted(SubSeq(seq, 1, Len(seq) - 1)), seq[Len(seq)])

\* filter(lambda partition_set: test, seq), lines 15-17
RECURSIVE filter_by_pipeline(_, _)
filter_by_pipeline(seq, pipeline_name) ==
    IF seq = <<>> THEN <<>>
    ELSE LET rest == filter_by_pipeline(SubSeq(seq, 1, Len(seq) - 1), pipeline_name)
             last == seq[Len(seq)]
         IN  IF last.pipeline_name = pipeline_name THEN Append(rest, last) ELSE rest

\* The typed result nodes of the schema.
PartitionSet(handle, partition_set) ==
    [type |-> "PartitionSet", external_repository_handle |-> handle,
     external_partition_set |-> partition_set, partition_set_name |-> None,
     results |-> <<>>]

PartitionSetNotFoundError(partition_set_name) ==
    [type |-> "PartitionSetNotFoundError", external_repository_handle |-> None,
     external_partition_set |-> NoPartitionSet,
     partition_set_name |-> partition_set_name, results |-> <<>>]

PartitionSets(results) ==
    [type |-> "PartitionSets", external_repository_handle |-> None,
     external_partition_set |-> NoPartitionSet, partition_set_name |-> None,
     results |-> results]

\* Lines 10-33
get_partition_sets_or_error(repo, pipeline_name) ==
    LET all == repo.partition_sets
        kept == IF pipeline_name \notin {None, ""}
                THEN filter_by_pipeline(all, pipeline_name)
                ELSE all
        ordered == sorted(kept)
    IN  PartitionSets([k \in DOMAIN ordered |-> PartitionSet(repo.handle, ordered[k])])

\* Lines 36-48, returning the last match.
get_partition_set_last_match(repo, partition_set_name) ==
    LET matches == {k \in DOMAIN repo.partition_sets :
                        repo.partition_sets[k].name = partition_set_name}
    IN  IF matches = {} THEN PartitionSetNotFoundError(partition_set_name)
        ELSE PartitionSet(repo.handle,
                 repo.partition_sets[CHOOSE k \in matches : \A j \in matches : j <= k])

\* Lines 36-48: the scan returns at the first match.
get_partition_set(repo, partition_set_name) ==
    LET matches == {k \in DOMAIN repo.partition_sets :
                        repo.partition_sets[k].name = partition_set_name}
    IN  IF matches = {} THEN PartitionSetNotFoundError(partition_set_name)
        ELSE PartitionSet(repo.handle,
                 repo.partition_sets[CHOOSE k \in matches : \A j \in matches : k <= j])

\* The filters and the names a query passes.
PipelineFilters == {None, "", "job1", "job2", "job3"}
RequestedNames == {"p1", "p2", "p3"}
Handles == {"handle_a", "handle_b"}

NoQuery == [op |-> "none", arg |-> None, out |-> PartitionSets(<<>>)]

QueryPartitionSets(pipeline_name) ==
    /\ ps_out' = [op |-> "get_partition_sets_or_error", arg |-> pipeline_name,
                  out |-> get_partition_sets_or_error(repository, pipeline_name)]
    /\ UNCHANGED repository
    /\ OnlyPs

QueryPartitionSet(partition_set_name) ==
    /\ ps_out' = [op |-> "get_partition_set", arg |-> partition_set_name,
                  out |-> get_partition_set(repository, partition_set_name)]
    /\ UNCHANGED repository
    /\ OnlyPs

NextPs ==
    \/ \E f \in PipelineFilters : QueryPartitionSets(f)
    \/ \E n \in RequestedNames : QueryPartitionSet(n)

(***************************************************************************)
(* fetch_partition_sets.py: the claims                                     *)
(***************************************************************************)

\* The tuple (pipeline name, mode, partition-set name), in Python's order.
NameTuple(partition_set) ==
    <<StrRank(partition_set.pipeline_name), StrRank(partition_set.mode),
      StrRank(partition_set.name)>>

CountOf(seq, v) == Cardinality({k \in DOMAIN seq : seq[k] = v})

\* The results are the partition sets `wanted` of the repository, each once,
\* in ascending order of the tuple, each with the repository's handle.
ListsExactly(repo, out, wanted) ==
    /\ out.type = "PartitionSets"
    /\ \A k \in DOMAIN out.results :
          /\ out.results[k].type = "PartitionSet"
          /\ out.results[k].external_repository_handle = repo.handle
    /\ \A v \in ExternalPartitionSets :
          Cardinality({k \in DOMAIN out.results :
                          out.results[k].external_partition_set = v})
            = IF v \in wanted THEN CountOf(repo.partition_sets, v) ELSE 0
    /\ \A a, b \in DOMAIN out.results :
          a < b => ~TupleLess(NameTuple(out.results[b].external_partition_set),
                              NameTuple(out.results[a].external_partition_set))

\* C7 as stated: the partition sets whose pipeline name equals the filter,
\* all of them when no filter is given; the repository is not modified.
C7_Original ==
    [][ps_out'.op = "get_partition_sets_or_error" =>
          /\ ListsExactly(repository, ps_out'.out,
                 {v \in ExternalPartitionSets :
                     ps_out'.arg = None \/ v.pipeline_name = ps_out'.arg})
          /\ repository' = repository]_vars

\* C7, amended: all of them when no filter or the empty string is given.
C7_Amended ==
    [][ps_out'.op = "get_partition_sets_or_error" =>
          /\ ListsExactly(repository, ps_out'.out,
                 {v \in ExternalPartitionSets :
                     ps_out'.arg \in {None, ""} \/ v.pipeline_name = ps_out'.arg})
          /\ repository' = repository]_vars

\* C7's case: a filter kept two partition sets of three, which the repository
\* lists in descending order, and which differ in mode only.
C7_Witness ==
    /\ ps_out.op = "get_partition_sets_or_error"
    /\ ps_out.arg = "job1"
    /\ Len(repository.partition_sets) = 3
    /\ Len(ps_out.out.results) = 2
    /\ ps_out.out.results[1].external_partition_set.mode = "modeA"
    /\ ps_out.out.results[2].external_partition_set.mode = "modeB"
    /\ ps_out.out.results[1].external_partition_set.name
           = ps_out.out.results[2].external_partition_set.name
    /\ \E a, b \in DOMAIN repository.partition_sets :
          /\ a < b
          /\ repository.partition_sets[a] = ps_out.out.results[2].external_partition_set
          /\ repository.partition_sets[b] = ps_out.out.results[1].external_partition_set

\* C8: a partition set of that name gives the first such partition set of the
\* repository, with the repository's handle; no partition set of that name
\* gives a PartitionSetNotFoundError that carries the name.
C8_FirstMatchOrNotFound ==
    ps_out.op = "get_partition_set" =>
        IF \E k \in DOMAIN repository.partition_sets :
               repository.partition_sets[k].name = ps_out.arg
        THEN /\ ps_out.out.type = "PartitionSet"
             /\ ps_out.out.external_repository_handle = repository.handle
             /\ \E k \in DOMAIN repository.partition_sets :
                   /\ repository.partition_sets[k] = ps_out.out.external_partition_set
                   /\ repository.partition_sets[k].name = ps_out.arg
                   /\ \A j \in 1..(k - 1) : repository.partition_sets[j].name # ps_out.arg
        ELSE /\ ps_out.out.type = "PartitionSetNotFoundError"
             /\ ps_out.out.partition_set_name = ps_out.arg

\* C8's case: two different partition sets have the name, and the first was
\* returned.
C8_Witness ==
    /\ ps_out.op = "get_partition_set"
    /\ ps_out.out.type = "PartitionSet"
    /\ \E a, b \in DOMAIN repository.partition_sets :
          /\ a < b
          /\ repository.partition_sets[a].name = ps_out.arg
          /\ repository.partition_sets[b].name = ps_out.arg
          /\ repository.partition_sets[a] # repository.partition_sets[b]
          /\ ps_out.out.external_partition_set = repository.partition_sets[a]

(***************************************************************************)
(* scheduling_policy.py                                                    *)
(***************************************************************************)

\* The largest evaluation_time of a context.
MaxTime == 2

\* Lines 18-20, 29-30
SchedulingResult(launch, partition_keys) ==
    [type |-> "SchedulingResult", launch |-> launch, partition_keys |-> partition_keys]
RequestReaction(include) == [type |-> "RequestReaction", include |-> include]
ReturnsNone == [type |-> "None"]

\* Lines 23-26
SchedulingExecutionContexts ==
    [evaluation_time : 1..MaxTime, repository_def : {"repo_a", "repo_b"},
     instance : {"instance"}]

\* Line 15
AssetPartitions == [asset_key : {"asset_a", "asset_b"}, partition_key : {"k1", "k2"}]

\* Lines 33-37; <<>> is a tick_settings of None (line 41).
TickSettings(tick_cron) ==
    [tick_cron |-> tick_cron, sensor_name |-> None, description |-> None,
     default_status |-> "STOPPED"]
TickSettingsChoices == {<<>>, <<TickSettings("* * * * *")>>, <<TickSettings("0 0 * * *")>>}

\* Lines 59-60, launching.
schedule_launching(self_tick_settings, context) == SchedulingResult(TRUE, None)

\* Lines 59-60: partition_keys takes its default, None (line 20).
schedule(self_tick_settings, context) == SchedulingResult(FALSE, None)

\* Lines 62-65
react_to_downstream_request(self_tick_settings, context, asset_partition) ==
    RequestReaction(FALSE)

\* Lines 52-55: inherited from SchedulingPolicy, whose body is `...`.
react_to_upstream_request(self_tick_settings, context, asset_partition) == ReturnsNone

NoContext == [evaluation_time |-> 0, repository_def |-> None, instance |-> None]
NoAssetPartition == [asset_key |-> None, partition_key |-> None]
NoPolicyCall == [op |-> "none", context |-> NoContext,
                 asset_partition |-> NoAssetPartition, result |-> ReturnsNone]

SetTickSettings(ts) ==
    /\ tick_settings' = ts
    /\ UNCHANGED pol_out
    /\ OnlyPolicy

CallSchedule(context) ==
    /\ pol_out' = [op |-> "schedule", context |-> context,
                   asset_partition |-> NoAssetPartition,
                   result |-> schedule(tick_settings, context)]
    /\ UNCHANGED tick_settings
    /\ OnlyPolicy

CallReactDownstream(context, asset_partition) ==
    /\ pol_out' = [op |-> "react_to_downstream_request", context |-> context,
                   asset_partition |-> asset_partition,
                   result |-> react_to_downstream_request(
                                  tick_settings, context, asset_partition)]
    /\ UNCHANGED tick_settings
    /\ OnlyPolicy

CallReactUpstream(context, asset_partition) ==
    /\ pol_out' = [op |-> "react_to_upstream_request", context |-> context,
                   asset_partition |-> asset_partition,
                   result |-> react_to_upstream_request(
                                  tick_settings, context, asset_partition)]
    /\ UNCHANGED tick_settings
    /\ OnlyPolicy

NextPolicy ==
    \/ \E ts \in TickSettingsChoices : SetTickSettings(ts)
    \/ \E c \in SchedulingExecutionContexts : CallSchedule(c)
    \/ \E c \in SchedulingExecutionContexts, ap \in AssetPartitions :
           CallReactDownstream(c, ap)
    \/ \E c \in SchedulingExecutionContexts, ap \in AssetPartitions :
           CallReactUpstream(c, ap)

(***************************************************************************)
(* scheduling_policy.py: the claims                                        *)
(***************************************************************************)

\* C9: after any calls and with any tick_settings, schedule returns
\* launch=False with no partition keys and react_to_downstream_request
\* returns include=False.
C9_Inert ==
    /\ pol_out.op = "schedule" =>
          /\ pol_out.result.type = "SchedulingResult"
          /\ pol_out.result.launch = FALSE
          /\ pol_out.result.partition_keys = None
    /\ pol_out.op = "react_to_downstream_request" =>
          /\ pol_out.result.type = "RequestReaction"
          /\ pol_out.result.include = FALSE

\* C9's case: schedule was called on a policy whose tick_settings are set.
C9_Witness ==
    /\ pol_out.op = "schedule"
    /\ tick_settings # <<>>
    /\ pol_out.context.evaluation_time = MaxTime
    /\ pol_out.result.launch = FALSE

(***************************************************************************)
(* table.py                                                                *)
(***************************************************************************)

\* The largest number of entries of a name_type_dict.
MaxCols == 2

ColumnNames == {"a", "b", "c", "d"}
TypeStrs == {"int", "string", "float"}

\* A mapping, as its items in order: the keys are distinct.
NameTypeDicts ==
    {d \in UNION {[1..n -> ColumnNames \X TypeStrs] : n \in 0..MaxCols} :
        \A i, j \in DOMAIN d : i # j => d[i][1] # d[j][1]}

Built(obj) == [ok |-> TRUE, error |-> None, obj |-> obj]
Fails(error) == [ok |-> FALSE, error |-> error, obj |-> <<>>]

\* pydantic's BaseModel.__init__: a field declared with an annotation and no
\* default is required (an Optional[...] one defaults to None); a missing
\* required field is a ValidationError.
BaseModel(required, defaults, kwargs) ==
    IF \E f \in required : f \notin DOMAIN kwargs
    THEN Fails("ValidationError")
    ELSE Built([f \in required \cup DOMAIN defaults |->
                   IF f \in DOMAIN kwargs THEN kwargs[f] ELSE defaults[f]])

\* Lines 28-39
TableConstraints(kwargs) == BaseModel({"other"}, <<>>, kwargs)

\* Line 42
DEFAULT_TABLE_CONSTRAINTS == TableConstraints([other |-> <<>>])

\* Lines 128-143: nullable and unique are declared with no default.
TableColumnConstraints(kwargs) ==
    BaseModel({"nullable", "unique"}, [other |-> None], kwargs)

\* Line 146
DEFAULT_TABLE_COLUMN_CONSTRAINTS == TableColumnConstraints(<<>>)

\* The module's top-level statements run in order at import; the first
\* exception ends the import, and nothing of the module can be called.
ModuleImport ==
    IF ~DEFAULT_TABLE_CONSTRAINTS.ok THEN DEFAULT_TABLE_CONSTRAINTS
    ELSE IF ~DEFAULT_TABLE_COLUMN_CONSTRAINTS.ok THEN DEFAULT_TABLE_COLUMN_CONSTRAINTS
    ELSE Built(<<>>)

\* Lines 154-173
TableColumn(kwargs) ==
    BaseModel({"name"},
              [type |-> "string", description |-> None,
               constraints |-> DEFAULT_TABLE_COLUMN_CONSTRAINTS.obj],
              kwargs)

\* Lines 49-108
TableSchema(kwargs) ==
    BaseModel({"columns"}, [constraints |-> DEFAULT_TABLE_CONSTRAINTS.obj], kwargs)

\* Lines 110-120
from_name_type_dict(name_type_dict) ==
    IF ~ModuleImport.ok THEN ModuleImport
    ELSE LET columns == [k \in DOMAIN name_type_dict |->
                            TableColumn([name |-> name_type_dict[k][1],
                                         type |-> name_type_dict[k][2]])]
         IN  IF \E k \in DOMAIN columns : ~columns[k].ok
             THEN Fails("ValidationError")
             ELSE TableSchema([columns |-> [k \in DOMAIN columns |-> columns[k].obj]])

NoTableCall == [op |-> "none", name_type_dict |-> <<>>, out |-> Fails(None)]

CallFromNameTypeDict(name_type_dict) ==
    /\ table_out' = [op |-> "from_name_type_dict", name_type_dict |-> name_type_dict,
                     out |-> from_name_type_dict(name_type_dict)]
    /\ OnlyTable

NextTable == \E d \in NameTypeDicts : CallFromNameTypeDict(d)

(***************************************************************************)
(* table.py: the claims                                                    *)
(***************************************************************************)

\* C10 as stated: from_name_type_dict returns a schema with one column for
\* each entry of the mapping, in its order, of the entry's name and type, with
\* the column constraints nullable=False, unique=False and no other, and with
\* empty table constraints.
C10_Original ==
    table_out.op = "from_name_type_dict" =>
        /\ table_out.out.ok
        /\ Len(table_out.out.obj.columns) = Len(table_out.name_type_dict)
        /\ \A k \in DOMAIN table_out.name_type_dict :
              /\ table_out.out.obj.columns[k].name = table_out.name_type_dict[k][1]
              /\ table_out.out.obj.columns[k].type = table_out.name_type_dict[k][2]
              /\ table_out.out.obj.columns[k].constraints
                     = [nullable |-> FALSE, unique |-> FALSE, other |-> None]
        /\ table_out.out.obj.constraints.other = <<>>


(***************************************************************************)
(* The specifications, one for each component                              *)
(***************************************************************************)

NextIndex ==
    \/ \E i \in Invocations : BuildIndex(i)
    \/ \E i \in Invocations : LockOpen(i)
    \/ \E i \in Invocations : Flock(i)
    \/ \E i \in Invocations : GetSize(i)
    \/ \E i \in Invocations : LoadAndMerge(i)
    \/ \E i \in Invocations : WriteIndex(i)
    \/ \E i \in Invocations : Release(i)

NextSensor ==
    \/ \E order \in ListdirOrders(dir) : question_sensor(order)
    \/ \E f \in QuestionNames, t \in Mtimes, b \in Bodies : WriteQuestion(f, t, b)
    \/ \E f \in QuestionNames : DeleteQuestion(f)

\* search_index: no prior index, that is no file.  FileLock (the filelock
\* package) opens its lock file with os.O_RDWR | os.O_CREAT | os.O_TRUNC
\* before it tries fcntl.flock; the package is no part of the repository, so
\* whether the open truncates is left to the lock implementation in use.
InitIndex ==
    /\ pc = [i \in Invocations |-> "build"]
    /\ partition_key \in [Invocations -> docs_partitions_def]
    /\ search_index_local = [i \in Invocations |-> {}]
    /\ file = Absent
    /\ holder = NoHolder
    /\ lockOpenTruncates \in BOOLEAN
    /\ dir = EmptyDir
    /\ cursor = NoCursor
    /\ sensor_out = NoResult
    /\ emitted = {}
    /\ fields_of = [c \in ConfigClasses |-> <<>>]
    /\ cfg_out = NoCall
    /\ repository = [handle |-> "handle_a", partition_sets |-> <<>>]
    /\ ps_out = NoQuery
    /\ tick_settings = <<>>
    /\ pol_out = NoPolicyCall
    /\ table_out = NoTableCall

SpecIndex == InitIndex /\ [][NextIndex]_vars

\* question_sensor: a directory with no question file, and no cursor.
InitSensor ==
    /\ pc = [i \in Invocations |-> "done"]
    /\ partition_key = [i \in Invocations |-> "guides"]
    /\ search_index_local = [i \in Invocations |-> {}]
    /\ file = Absent
    /\ holder = NoHolder
    /\ lockOpenTruncates = TRUE
    /\ dir = EmptyDir
    /\ cursor = NoCursor
    /\ sensor_out = NoResult
    /\ emitted = {}
    /\ fields_of = [c \in ConfigClasses |-> <<>>]
    /\ cfg_out = NoCall
    /\ repository = [handle |-> "handle_a", partition_sets |-> <<>>]
    /\ ps_out = NoQuery
    /\ tick_settings = <<>>
    /\ pol_out = NoPolicyCall
    /\ table_out = NoTableCall

SpecSensor == InitSensor /\ [][NextSensor]_vars

\* The schema bridge: the classes Outer and Inner, declared in every way.
InitConfig ==
    /\ pc = [i \in Invocations |-> "done"]
    /\ partition_key = [i \in Invocations |-> "guides"]
    /\ search_index_local = [i \in Invocations |-> {}]
    /\ file = Absent
    /\ holder = NoHolder
    /\ lockOpenTruncates = TRUE
    /\ dir = EmptyDir
    /\ cursor = NoCursor
    /\ sensor_out = NoResult
    /\ emitted = {}
    /\ fields_of \in {[c \in ConfigClasses |-> IF c = "Outer" THEN o ELSE i] :
                        o \in OuterDecls, i \in InnerDecls}
    /\ cfg_out = NoCall
    /\ repository = [handle |-> "handle_a", partition_sets |-> <<>>]
    /\ ps_out = NoQuery
    /\ tick_settings = <<>>
    /\ pol_out = NoPolicyCall
    /\ table_out = NoTableCall

SpecConfig == InitConfig /\ [][NextConfig]_vars

\* The resolvers: every repository of at most MaxSets partition sets.
InitPs ==
    /\ pc = [i \in Invocations |-> "done"]
    /\ partition_key = [i \in Invocations |-> "guides"]
    /\ search_index_local = [i \in Invocations |-> {}]
    /\ file = Absent
    /\ holder = NoHolder
    /\ lockOpenTruncates = TRUE
    /\ dir = EmptyDir
    /\ cursor = NoCursor
    /\ sensor_out = NoResult
    /\ emitted = {}
    /\ fields_of = [c \in ConfigClasses |-> <<>>]
    /\ cfg_out = NoCall
    /\ repository \in [handle : Handles,
                       partition_sets : UNION {[1..n -> ExternalPartitionSets]
                                                  : n \in 0..MaxSets}]
    /\ ps_out = NoQuery
    /\ tick_settings = <<>>
    /\ pol_out = NoPolicyCall
    /\ table_out = NoTableCall

SpecPs == InitPs /\ [][NextPs]_vars

\* DefaultSchedulingPolicy(): tick_settings is None (line 41).
InitPolicy ==
    /\ pc = [i \in Invocations |-> "done"]
    /\ partition_key = [i \in Invocations |-> "guides"]
    /\ search_index_local = [i \in Invocations |-> {}]
    /\ file = Absent
    /\ holder = NoHolder
    /\ lockOpenTruncates = TRUE
    /\ dir = EmptyDir
    /\ cursor = NoCursor
    /\ sensor_out = NoResult
    /\ emitted = {}
    /\ fields_of = [c \in ConfigClasses |-> <<>>]
    /\ cfg_out = NoCall
    /\ repository = [handle |-> "handle_a", partition_sets |-> <<>>]
    /\ ps_out = NoQuery
    /\ tick_settings = <<>>
    /\ pol_out = NoPolicyCall
    /\ table_out = NoTableCall

SpecPolicy == InitPolicy /\ [][NextPolicy]_vars

\* table.py: no call yet.
InitTable ==
    /\ pc = [i \in Invocations |-> "done"]
    /\ partition_key = [i \in Invocations |-> "guides"]
    /\ search_index_local = [i \in Invocations |-> {}]
    /\ file = Absent
    /\ holder = NoHolder
    /\ lockOpenTruncates = TRUE
    /\ dir = EmptyDir
    /\ cursor = NoCursor
    /\ sensor_out = NoResult
    /\ emitted = {}
    /\ fields_of = [c \in ConfigClasses |-> <<>>]
    /\ cfg_out = NoCall
    /\ repository = [handle |-> "handle_a", partition_sets |-> <<>>]
    /\ ps_out = NoQuery
    /\ tick_settings = <<>>
    /\ pol_out = NoPolicyCall
    /\ table_out = NoTableCall

SpecTable == InitTable /\ [][NextTable]_vars

====
